---- MODULE Spec2Model ----
(***************************************************************************)
(* py-troya-connect: ExtraTerminal (src/py_troya_connect/terminal.py).     *)
(*                                                                         *)
(* Seven specifications share the module:                                  *)
(*   SpecFormat  the pure string transform format_command, applied to      *)
(*               command strings assembled from a table of pieces;         *)
(*   SpecInit    construction of a controller against a host session       *)
(*               collection, with the failures of its host calls;          *)
(*   SpecLife    the life of a controller: construction, managed blocks    *)
(*               (__enter__, __exit__), connect, disconnect, release;      *)
(*   Spec        the operations of a constructed controller (send_keys,    *)
(*               send_command, read_screen, wait_for_ready, connect,       *)
(*               disconnect), one step per pass of the readiness poller;   *)
(*   SpecWait    wait_for_text on a constructed controller;                *)
(*   SpecWaitFair  SpecWait with a loop that keeps taking its next pass;   *)
(*   SpecAll     one controller from its construction through every        *)
(*               operation.                                                *)
(* Python strings are TLA+ strings; str methods are modelled by what they  *)
(* compute (replace, strip, endswith, slicing).                            *)
(***************************************************************************)
EXTENDS Integers, Sequences, FiniteSets, TLC

VARIABLES
    pieces,      \* SpecFormat: the pieces the command string was assembled from
    command,     \* SpecFormat: the argument of format_command
    formatted,   \* SpecFormat: format_command(command), once fpc # "start"
    reformatted, \* SpecFormat: format_command(formatted), once fpc = "again"
    fpc,         \* SpecFormat: "start", "formatted" or "again"
    sessions,    \* host: the Name of each entry of extra_app.Sessions, in order
    xstatus,     \* host: screen.OIA.XStatus
    term,        \* the ExtraTerminal object: terminal_type, session, connected, counter
    call,        \* the call in progress: its operation, arguments and position
    result,      \* what the finished call returned or raised
    coInits,     \* pythoncom.CoInitialize calls so far
    coUninits,   \* pythoncom.CoUninitialize calls so far
    blocks       \* managed blocks (with statements) of the controller that are open

fvars == <<pieces, command, formatted, reformatted, fpc>>
cvars == <<sessions, xstatus, term, call, result, coInits, coUninits, blocks>>
vars == <<pieces, command, formatted, reformatted, fpc,
          sessions, xstatus, term, call, result, coInits, coUninits, blocks>>

----------------------------------------------------------------------------
(* Bounds *)

\* number of pieces a command string of SpecFormat is assembled from
MaxPieces == 3

\* largest number of entries of the host session collection
MaxSessions == 2

\* largest number of controller constructions in one run
MaxInits == 2

\* sleeps of wait_for_ready that fit into its default timeout (30 s of 0.1 s
\* sleeps, scaled); timeouts are counted in sleeps
MaxPolls == 3
DefaultTimeout == MaxPolls

----------------------------------------------------------------------------
(* Python str primitives *)

\* s[i:] for 0 <= i
From(s, i) == SubSeq(s, i + 1, Len(s))

\* s.startswith(p)
StartsWith(s, p) == Len(s) >= Len(p) /\ SubSeq(s, 1, Len(p)) = p

\* s.endswith(p)
EndsWith(s, p) == Len(s) >= Len(p) /\ SubSeq(s, Len(s) - Len(p) + 1, Len(s)) = p

\* s.replace(old, new): leftmost, non-overlapping occurrences, one pass
RECURSIVE Replace(_, _, _)
Replace(s, old, new) ==
    IF Len(s) < Len(old) THEN s
    ELSE IF StartsWith(s, old)
         THEN new \o Replace(From(s, Len(old)), old, new)
         ELSE SubSeq(s, 1, 1) \o Replace(From(s, 1), old, new)

\* s.lstrip() / s.rstrip() / s.strip(); the only whitespace of the model is " "
RECURSIVE LStrip(_)
LStrip(s) == IF StartsWith(s, " ") THEN LStrip(From(s, 1)) ELSE s

RECURSIVE RStrip(_)
RStrip(s) == IF EndsWith(s, " ") THEN RStrip(SubSeq(s, 1, Len(s) - 1)) ELSE s

Strip(s) == RStrip(LStrip(s))

----------------------------------------------------------------------------
(* Command Formatter *)

\* the special keys of the substitution table
Keys == <<"ENTER", "TAB", "CLEAR", "PA1", "PA2", "PA3", "RESET">>

Bracket(k) == "{" \o k \o "}"
Escape(k) == "<" \o k \o ">"

\* the dict of format_command in insertion order: the bracket tokens, then the
\* bare tokens
replacements ==
    [i \in 1..Len(Keys) |-> <<Bracket(Keys[i]), Escape(Keys[i])>>]
    \o [i \in 1..Len(Keys) |-> <<Keys[i], Escape(Keys[i])>>]

\* for old, new in replacements.items(): command = command.replace(old, new)
RECURSIVE ApplyReplacements(_, _)
ApplyReplacements(s, i) ==
    IF i > Len(replacements) THEN s
    ELSE ApplyReplacements(Replace(s, replacements[i][1], replacements[i][2]), i + 1)

\* if not command.strip().endswith('<ENTER>'): command = command.strip() + ' <ENTER>'
EnsureSubmit(s) ==
    IF ~EndsWith(Strip(s), "<ENTER>") THEN Strip(s) \o " <ENTER>" ELSE s

format_command(c) == EnsureSubmit(ApplyReplacements(c, 1))

----------------------------------------------------------------------------
(* Error Taxonomy *)

\* details or {}
NoDetails == <<>>

\* class ConnectionError(ExtraTerminalError): code 1001
ConnectionError(message, details) ==
    [kind |-> "ConnectionError", error_code |-> 1001,
     message |-> message, details |-> details]

\* class SessionError(ExtraTerminalError): code 1002
SessionError(message, details) ==
    [kind |-> "SessionError", error_code |-> 1002,
     message |-> message, details |-> details]

\* class TerminalBusyError(ExtraTerminalError): code 1003
TerminalBusyError(message, details) ==
    [kind |-> "TerminalBusyError", error_code |-> 1003,
     message |-> message, details |-> details]

\* class CommandError(ExtraTerminalError): code 1004
CommandError(message, details) ==
    [kind |-> "CommandError", error_code |-> 1004,
     message |-> message, details |-> details]

TaxonomyKinds == {"ConnectionError", "SessionError", "TerminalBusyError", "CommandError"}

\* ExtraTerminalError.format_error: "[Error <code>] <message>" and the itemized
\* details
format_error(e) ==
    [error_code |-> e.error_code, message |-> e.message, details |-> e.details]

----------------------------------------------------------------------------
(* Host automation object: what a host call can do *)

\* pythoncom.com_error(hr, msg, exc, arg) values the host raises
ComErrors ==
    {[kind |-> "com_error", hr |-> h, msg |-> "host failure", exc |-> "EXTRA", arg |-> h + 1]
        : h \in {-7, -5}}

\* host exceptions that are no com_error: a missing attribute, and any other
OtherErrors ==
    {[kind |-> k, hr |-> 0, msg |-> "not a com_error", exc |-> "", arg |-> 0]
        : k \in {"AttributeError", "Exception"}}

HostErrors == ComErrors \cup OtherErrors

\* the host call goes through
NoFault == [kind |-> "none", hr |-> 0, msg |-> "", exc |-> "", arg |-> 0]

\* the com_error of the host for a position or key its collection does not hold
BadIndex ==
    [kind |-> "com_error", hr |-> -3, msg |-> "invalid index", exc |-> "EXTRA", arg |-> 1]

\* str(e)
StrOf(e) ==
    IF e.kind \in TaxonomyKinds THEN format_error(e)
    ELSE [error_code |-> e.hr, message |-> e.msg, details |-> <<e.exc, e.arg>>]

\* the value a call returns; shape tells a list from a string
Returned(v) == [kind |-> "ok", shape |-> "value", value |-> v]
ReturnedList(v) == [kind |-> "ok", shape |-> "list", value |-> v]
ReturnedStr(v) == [kind |-> "ok", shape |-> "str", value |-> v]

\* values of screen.OIA.XStatus: idle, not idle and not busy, busy
Busy == 5
StatusValues == {0, 1, Busy}

\* last_status when the flag is missing: getattr(..., 'XStatus', None)
NoStatus == -1

\* response[:2560], rows of 80 columns
ScreenSize == 2560
Columns == 80

----------------------------------------------------------------------------
(* Session Locator and construction: ExtraTerminal.__init__ *)

TerminalTypes == {"EXTRA", "HIS", "NETMANAGE"}

\* TerminalType(...).value
TypeValue(t) ==
    CASE t = "EXTRA" -> "EXTRA.System"
      [] t = "HIS" -> "MSHISServer.Session"
      [] t = "NETMANAGE" -> "NetManage.Connection.1"
      [] OTHER -> "INVALID.System"

\* int(session_name): the decimal strings of the model, ValueError for the rest
IntOf == [s \in {"0", "1", "2", "3", "4"} |->
            CASE s = "0" -> 0 [] s = "1" -> 1 [] s = "2" -> 2 [] s = "3" -> 3 [] s = "4" -> 4]
IsInt(s) == s \in DOMAIN IntOf

\* list_available_sessions: the {index, name, connected} records, or the
\* description string when the enumeration raises com_error; any other
\* exception propagates. `conn` gives session.Connected of each entry,
\* `fault` is NoFault or the exception the enumeration runs into.
list_available_sessions(coll, conn, fault) ==
    IF fault.kind = "none"
    THEN ReturnedList([i \in 1..Len(coll) |->
                      [index |-> i, name |-> coll[i], connected |-> conn[i]]])
    ELSE IF fault.kind = "com_error"
    THEN ReturnedStr("Failed to list sessions: "
                      \o "Code, Message, Source, Param of " \o fault.msg)
    ELSE fault

\* `not sessions`: an empty list is falsy, a non-empty list or string truthy
Falsy(r) == IF r.shape = "list" THEN Len(r.value) = 0 ELSE r.value = ""

\* check_system_status(): the host's version, the session count and the
\* session names; com_error becomes a description string, any other exception
\* passes through. `fault` is the exception of the host reads (NoFault: none).
check_system_status(coll, fault) ==
    IF fault.kind = "none"
    THEN [kind |-> "ok", shape |-> "dict",
          value |-> [version |-> "Extra Version", count |-> Len(coll), names |-> coll]]
    ELSE IF fault.kind = "com_error"
    THEN ReturnedStr("Failed to get system status: "
                      \o "Code, Message, Source, Param of " \o fault.msg)
    ELSE fault

\* mutant of FirstNamed: the scan goes on after a match
RECURSIVE LastNamed(_, _, _)
LastNamed(coll, name, i) ==
    IF i > Len(coll) THEN 0
    ELSE IF LastNamed(coll, name, i + 1) # 0 THEN LastNamed(coll, name, i + 1)
    ELSE IF coll[i] = name THEN i
    ELSE 0

\* the first position of the collection whose Name equals the name, 0 if none
RECURSIVE FirstNamed(_, _, _)
FirstNamed(coll, name, i) ==
    IF i > Len(coll) THEN 0
    ELSE IF coll[i] = name THEN i
    ELSE FirstNamed(coll, name, i + 1)

\* the except clauses of __init__
WrapInit(e, terminal_type) ==
    IF e.kind = "com_error"
    THEN ConnectionError("Failed to initialize " \o TypeValue(terminal_type),
                         [hr |-> e.hr, msg |-> e.msg, source |-> e.exc, arg |-> e.arg])
    ELSE ConnectionError("Unexpected error", [error |-> StrOf(e)])

\* The try block of __init__ up to the session handle: the position of the
\* session in the host collection, or the exception raised on the way.
\* f.list is the fault of the enumeration (NoFault: none), f.at the host call
\* that raises f.err ("none": no host call raises).
AcquireSession(coll, conn, session_name, terminal_type, f) ==
    IF terminal_type \notin TerminalTypes
    THEN \* no branch binds self.extra_app: the print raises AttributeError
         [kind |-> "AttributeError", hr |-> 0, msg |-> "no attribute extra_app",
          exc |-> "", arg |-> 0]
    ELSE IF f.at = "Dispatch" THEN f.err
    ELSE IF terminal_type = "EXTRA"
    THEN LET listed == list_available_sessions(coll, conn, f.list)
         IN  IF listed.kind # "ok" THEN listed
             ELSE IF Falsy(listed) THEN SessionError("No sessions available", NoDetails)
             ELSE IF IsInt(session_name)
             THEN IF f.at = "Lookup" THEN f.err
                  ELSE IF IntOf[session_name] \in 1..Len(coll)
                       THEN Returned(IntOf[session_name])
                       ELSE BadIndex
             ELSE IF f.at = "Lookup" THEN f.err
                  ELSE IF FirstNamed(coll, session_name, 1) # 0
                       THEN Returned(FirstNamed(coll, session_name, 1))
                       ELSE IF listed.shape # "list"
                            THEN \* s['name'] on the description string: TypeError
                                 [kind |-> "Exception", hr |-> 0,
                                  msg |-> "string indices must be integers",
                                  exc |-> "", arg |-> 0]
                            ELSE SessionError("Session not found",
                                     [name |-> session_name,
                                      available |-> [i \in 1..Len(coll) |->
                                                        listed.value[i].name]])
    ELSE \* HIS: OpenSession(session_name); NETMANAGE: Sessions.Item(session_name)
         IF f.at = "Lookup" THEN f.err
         ELSE IF FirstNamed(coll, session_name, 1) # 0
              THEN Returned(FirstNamed(coll, session_name, 1))
              ELSE BadIndex

\* mutant of Construct: the locator's own errors are re-raised as they are
ConstructKeepsSessionError(coll, conn, session_name, terminal_type, f) ==
    LET got == AcquireSession(coll, conn, session_name, terminal_type, f)
        fail == IF got.kind = "ok" THEN f.err ELSE got
    IN  IF got.kind = "ok" /\ f.at \notin {"Name", "Screen"}
        THEN [kind |-> "ok", session |-> got.value, connected |-> TRUE,
              cause |-> NoFault, error |-> NoFault]
        ELSE [kind |-> "raised", session |-> 0, connected |-> FALSE,
              cause |-> fail, error |-> IF fail.kind \in TaxonomyKinds THEN fail
                        ELSE WrapInit(fail, terminal_type)]

\* __init__ as a whole: the session, session.Name, session.Screen, then
\* connected = True; every exception of the try block leaves through one of
\* the two except clauses. `connected` tells whether the attribute was set,
\* `cause` is the exception the except clause caught.
Construct(coll, conn, session_name, terminal_type, f) ==
    LET got == AcquireSession(coll, conn, session_name, terminal_type, f)
        fail == IF got.kind = "ok" THEN f.err ELSE got
    IN  IF got.kind = "ok" /\ f.at \notin {"Name", "Screen"}
        THEN [kind |-> "ok", session |-> got.value, connected |-> TRUE,
              cause |-> NoFault, error |-> NoFault]
        ELSE [kind |-> "raised", session |-> 0, connected |-> FALSE,
              cause |-> fail, error |-> WrapInit(fail, terminal_type)]

----------------------------------------------------------------------------
(* State of the controller and of a call *)

\* no controller object
NoTerm == [exists |-> FALSE, terminal_type |-> "EXTRA", session |-> 0,
           connected |-> FALSE, counter |-> 0]

\* no call in progress
Idle == [op |-> "idle", pc |-> "idle"]

\* nothing returned or raised yet
NoResult == [kind |-> "none"]

\* an exception leaves the call: result carries the error as the caller sees it
Raised(e) == [kind |-> "raised", error |-> e]

----------------------------------------------------------------------------
(* SpecInit: construction of controllers against a host session collection *)

SessionNames == {"A", "B"}
HostCollections == UNION {[1..n -> SessionNames] : n \in 0..MaxSessions}

\* identifiers: positions inside and outside the collection, names in and not
\* in it
SessionIds == {"0", "1", "2", "A", "Z"}

\* the controller a returning construction leaves
NewTerm(terminal_type, out) ==
    [exists |-> TRUE, terminal_type |-> terminal_type, session |-> out.session,
     connected |-> out.connected, counter |-> 0]

\* no host call raises
NoInitFault == [list |-> NoFault, at |-> "none", err |-> NoFault]

InitFaults ==
    {[list |-> l, at |-> "none", err |-> NoFault] : l \in {NoFault} \cup HostErrors}
    \cup {[list |-> l, at |-> a, err |-> e] :
            l \in {NoFault} \cup HostErrors,
            a \in {"Dispatch", "Lookup", "Name", "Screen"},
            e \in HostErrors}

InitInit ==
    /\ sessions \in HostCollections
    /\ xstatus = 0
    /\ term = NoTerm
    /\ call = Idle
    /\ result = NoResult
    /\ coInits = 0
    /\ coUninits = 0
    /\ blocks = 0
    /\ pieces = <<>>
    /\ command = ""
    /\ formatted = ""
    /\ reformatted = ""
    /\ fpc = "start"

\* terminal = ExtraTerminal(session_name, terminal_type): CoInitialize, then
\* the try block of __init__
ConstructCall ==
    /\ call.op = "idle"
    /\ ~term.exists
    /\ coInits < MaxInits
    /\ \E session_name \in SessionIds, terminal_type \in TerminalTypes \cup {"INVALID"},
          f \in InitFaults, conn \in [1..Len(sessions) -> BOOLEAN] :
          LET out == Construct(sessions, conn, session_name, terminal_type, f)
          IN  /\ call' = [op |-> "__init__", pc |-> "done",
                          session_name |-> session_name,
                          terminal_type |-> terminal_type, fault |-> f,
                          connected_set |-> out.connected, cause |-> out.cause]
              /\ term' = IF out.kind = "ok" THEN NewTerm(terminal_type, out) ELSE term
              /\ result' = IF out.kind = "ok" THEN Returned(TRUE) ELSE Raised(out.error)
    /\ coInits' = coInits + 1
    /\ UNCHANGED <<sessions, xstatus, coUninits, blocks, fvars>>

\* the caller takes the value or the exception of the finished call
Return ==
    /\ call.pc = "done"
    /\ call' = Idle
    /\ result' = NoResult
    /\ UNCHANGED <<sessions, xstatus, term, coInits, coUninits, blocks, fvars>>

\* the caller drops its reference to the controller
Release ==
    /\ call.op = "idle"
    /\ term.exists
    /\ blocks = 0
    /\ term' = NoTerm
    /\ UNCHANGED <<sessions, xstatus, call, result, coInits, coUninits, blocks, fvars>>

NextInit == ConstructCall \/ Return \/ Release

SpecInit == InitInit /\ [][NextInit]_vars

----------------------------------------------------------------------------
(* Properties of construction (SpecInit) *)

Constructed == call.op = "__init__" /\ call.pc = "done"

\* C9: with the EXTRA backend and a host whose calls all go through,
\* construction raises SessionError when the session collection is empty, and
\* raises SessionError carrying the requested name and all available names
\* when the identifier is no number and no session has that name.
C9_SessionErrorOnLookupFailure ==
    (Constructed /\ call.terminal_type = "EXTRA" /\ call.fault = NoInitFault) =>
        /\ Len(sessions) = 0 =>
              (result.kind = "raised" /\ result.error.kind = "SessionError")
        /\ (/\ Len(sessions) > 0
            /\ ~IsInt(call.session_name)
            /\ \A i \in 1..Len(sessions) : sessions[i] # call.session_name) =>
              /\ result.kind = "raised"
              /\ result.error.kind = "SessionError"
              /\ result.error.details.name = call.session_name
              /\ result.error.details.available = sessions

\* the fields of a host automation error as the error detail keeps them
HostFields(e) == [hr |-> e.hr, msg |-> e.msg, source |-> e.exc, arg |-> e.arg]

C23_SessionResolution ==
    (Constructed /\ call.terminal_type = "EXTRA" /\ sessions # <<>>) =>
        LET id == call.session_name
            names == {sessions[i] : i \in 1..Len(sessions)}
        IN  /\ result.kind = "ok" =>
                  IF IsInt(id)
                  THEN term.session = IntOf[id]
                  ELSE /\ term.session \in 1..Len(sessions)
                       /\ sessions[term.session] = id
                       /\ \A j \in 1..(term.session - 1) : sessions[j] # id
            /\ (call.fault = NoInitFault /\
                  (IF IsInt(id) THEN IntOf[id] \in 1..Len(sessions) ELSE id \in names)) =>
                  result.kind = "ok"

\* a construction by name on a collection that holds the name twice
C23_Witness ==
    /\ Constructed
    /\ call.terminal_type = "EXTRA"
    /\ sessions = <<"A", "A">>
    /\ call.session_name = "A"
    /\ result.kind = "ok"
    /\ term.session = 1

----------------------------------------------------------------------------
(* Readiness Poller: wait_for_ready *)

\* mutant of wait_for_ready: when the time is up it returns False
wait_for_ready_returns_false(elapsed, timeout, status, rd) ==
    IF elapsed < timeout
    THEN IF rd.kind # "none"
         THEN [next |-> "done",
               out |-> Raised(TerminalBusyError("Failed to check terminal status",
                                  [error |-> StrOf(rd), elapsed |-> elapsed]))]
         ELSE IF status # Busy
         THEN [next |-> "done", out |-> Returned(TRUE)]
         ELSE [next |-> "sleep", out |-> NoResult]
    ELSE [next |-> "done", out |-> Returned(FALSE)]

\* mutant of wait_for_ready: every read that goes through ends the wait
wait_for_ready_ignores_flag(elapsed, timeout, status, rd) ==
    IF elapsed < timeout
    THEN IF rd.kind # "none"
         THEN [next |-> "done",
               out |-> Raised(TerminalBusyError("Failed to check terminal status",
                                  [error |-> StrOf(rd), elapsed |-> elapsed]))]
         ELSE [next |-> "done", out |-> Returned(TRUE)]
    ELSE [next |-> "done",
          out |-> Raised(TerminalBusyError("Terminal busy timeout",
                             [timeout |-> timeout, last_status |-> status]))]

\* One pass of wait_for_ready with `elapsed` sleeps behind it. `status` is
\* screen.OIA.XStatus, `rd` the exception its read raises (NoFault: none).
\* While the time is not up: another read, True on a flag that is not busy,
\* a sleep otherwise, TerminalBusyError when the read raises. When the time
\* is up: TerminalBusyError with the timeout and the flag read once more;
\* getattr turns only a missing XStatus attribute into None, any other
\* exception of that read leaves wait_for_ready as it is.
wait_for_ready(elapsed, timeout, status, rd) ==
    IF elapsed < timeout
    THEN IF rd.kind # "none"
         THEN [next |-> "done",
               out |-> Raised(TerminalBusyError("Failed to check terminal status",
                                  [error |-> StrOf(rd), elapsed |-> elapsed]))]
         ELSE IF status # Busy
         THEN [next |-> "done", out |-> Returned(TRUE)]
         ELSE [next |-> "sleep", out |-> NoResult]
    ELSE IF rd.kind = "none"
         THEN [next |-> "done",
               out |-> Raised(TerminalBusyError("Terminal busy timeout",
                                  [timeout |-> timeout, last_status |-> status]))]
         ELSE IF rd.kind = "AttributeError"
         THEN [next |-> "done",
               out |-> Raised(TerminalBusyError("Terminal busy timeout",
                                  [timeout |-> timeout, last_status |-> NoStatus]))]
         ELSE [next |-> "done", out |-> Raised(rd)]

----------------------------------------------------------------------------
(* Session Controller: send_keys, send_command *)

\* mutant of SendKeysEntry: the poller is entered without the injection
SendKeysEntryWithoutInjection(keys, conn, sk) ==
    IF conn.kind # "ok"
    THEN [next |-> "done", out |-> Raised(conn), sent |-> <<>>]
    ELSE IF ~conn.value
    THEN [next |-> "done", sent |-> <<>>,
          out |-> Raised(ConnectionError("Not connected to terminal", NoDetails))]
    ELSE [next |-> "poll", sent |-> <<>>, out |-> NoResult]

\* send_keys up to the keystroke injection. `conn` is what is_connected
\* returns or raises (the read of session.Connected), `sk` the exception of
\* screen.SendKeys (NoFault: none). `sent` lists the strings handed to SendKeys.
SendKeysEntry(keys, conn, sk) ==
    IF conn.kind # "ok"
    THEN [next |-> "done", out |-> Raised(conn), sent |-> <<>>]
    ELSE IF ~conn.value
    THEN [next |-> "done", sent |-> <<>>,
          out |-> Raised(ConnectionError("Not connected to terminal", NoDetails))]
    ELSE IF sk.kind = "com_error"
    THEN [next |-> "done", sent |-> <<keys>>,
          out |-> Raised(CommandError("Failed to send keys",
                             [keys |-> keys, hr |-> sk.hr, msg |-> sk.msg]))]
    ELSE IF sk.kind # "none"
    THEN [next |-> "done", sent |-> <<keys>>, out |-> Raised(sk)]
    ELSE [next |-> "poll", sent |-> <<keys>>, out |-> NoResult]

\* mutant of SendKeysResume: a poller that raised is reported as CommandError
SendKeysResumeWrapsBusy(keys, w) ==
    IF w.kind = "ok"
    THEN IF ~w.value
         THEN Raised(CommandError("Terminal not ready after sending keys", NoDetails))
         ELSE Returned("None")
    ELSE Raised(CommandError("Terminal not ready after sending keys", NoDetails))

\* send_keys after wait_for_ready: `w` is what the poller returned or raised.
\* Only com_error is caught; every other exception passes through.
SendKeysResume(keys, w) ==
    IF w.kind = "ok"
    THEN IF ~w.value
         THEN Raised(CommandError("Terminal not ready after sending keys", NoDetails))
         ELSE Returned("None")
    ELSE IF w.error.kind = "com_error"
    THEN Raised(CommandError("Failed to send keys",
                    [keys |-> keys, hr |-> w.error.hr, msg |-> w.error.msg]))
    ELSE w

\* mutant of SendCommandResume: the command as given is returned
SendCommandResumeEchoesInput(cmd, formatted_command, r) ==
    IF r.kind = "ok" THEN ReturnedStr(cmd) ELSE r

\* send_command after send_keys(formatted_command): return formatted_command
SendCommandResume(cmd, formatted_command, r) ==
    IF r.kind = "ok" THEN ReturnedStr(formatted_command) ELSE r

----------------------------------------------------------------------------
(* Screen Reader: read_screen *)

Min(a, b) == IF a < b THEN a ELSE b

\* response[a:b]
Slice(s, a, b) == SubSeq(s, a + 1, Min(b, Len(s)))

\* for i in range(0, len(response), 80): response[i:i+80].rstrip()
RECURSIVE ScreenRows(_, _)
ScreenRows(response, i) ==
    IF i >= Len(response) THEN <<>>
    ELSE <<RStrip(Slice(response, i, i + Columns))>> \o ScreenRows(response, i + Columns)

\* an exception inside the try block leaves read_screen as CommandError
ReadScreenFailed(e) ==
    [kind |-> "CommandError", error_code |-> 1004,
     message |-> "Read screen failed: ", details |-> NoDetails,
     text |-> StrOf(e), cause |-> e.kind]

\* mutant of ReadScreenResume: the whole buffer is kept
ReadScreenResumeWholeBuffer(strip_whitespace, w, gs) ==
    IF w.kind # "ok"
    THEN [reads |-> 0, out |-> Raised(ReadScreenFailed(w.error))]
    ELSE IF ~w.value
    THEN [reads |-> 0,
          out |-> Raised(ReadScreenFailed(
                      TerminalBusyError("Terminal not ready for reading", NoDetails)))]
    ELSE IF gs.kind # "ok"
    THEN [reads |-> 1, out |-> Raised(ReadScreenFailed(gs))]
    ELSE [reads |-> 1,
          out |-> IF strip_whitespace
                  THEN ReturnedList(ScreenRows(gs.value, 0))
                  ELSE ReturnedStr(gs.value)]

\* read_screen after wait_for_ready: `w` is what the poller returned or
\* raised, `gs` what screen.GetStringEx returns or raises. `reads` counts the
\* GetStringEx calls.
ReadScreenResume(strip_whitespace, w, gs) ==
    IF w.kind # "ok"
    THEN [reads |-> 0, out |-> Raised(ReadScreenFailed(w.error))]
    ELSE IF ~w.value
    THEN [reads |-> 0,
          out |-> Raised(ReadScreenFailed(
                      TerminalBusyError("Terminal not ready for reading", NoDetails)))]
    ELSE IF gs.kind # "ok"
    THEN [reads |-> 1, out |-> Raised(ReadScreenFailed(gs))]
    ELSE LET response == Slice(gs.value, 0, ScreenSize)
         IN  [reads |-> 1,
              out |-> IF strip_whitespace
                      THEN ReturnedList(ScreenRows(response, 0))
                      ELSE ReturnedStr(response)]

----------------------------------------------------------------------------
(* Text finder: wait_for_text *)

\* read_screen(strip_whitespace: bool = False): the value of a call without
\* arguments
DefaultStrip == FALSE

\* self.timeout: the limit of the busy counter
CounterLimit == 10000

\* text in line
Contains(line, text) ==
    \E i \in 0..(Len(line) - Len(text)) : SubSeq(line, i + 1, i + Len(text)) = text

\* for line in screen_text: if text in line. A list gives its entries, a str
\* its characters.
TextFound(text, r) ==
    IF r.shape = "str"
    THEN \E i \in 1..Len(r.value) : Contains(SubSeq(r.value, i, i), text)
    ELSE \E i \in 1..Len(r.value) : Contains(r.value[i], text)

\* the search of one turn of wait_for_text: `r` is what read_screen()
\* returned or raised
Search(text, r) ==
    IF r.kind # "ok" THEN "raised"
    ELSE IF TextFound(text, r) THEN "found"
    ELSE "absent"

\* mutant of WaitForTextBody: every turn without the text counts as busy
WaitForTextBodyCountsEveryTurn(search, counter, status, rd) ==
    IF search = "raised"
    THEN [next |-> "sleep", out |-> NoResult, counter |-> counter]
    ELSE IF search = "found"
    THEN [next |-> "done", out |-> Returned(TRUE), counter |-> counter]
    ELSE IF counter + 1 > CounterLimit
    THEN [next |-> "done", out |-> Returned(FALSE), counter |-> counter + 1]
    ELSE [next |-> "sleep", out |-> NoResult, counter |-> counter + 1]

\* mutant of WaitForTextBody: an exception of read_screen() leaves the call
WaitForTextBodyPropagates(search, counter, status, rd) ==
    IF search = "raised"
    THEN [next |-> "done", counter |-> counter,
          out |-> Raised(CommandError("Read screen failed", NoDetails))]
    ELSE IF search = "found"
    THEN [next |-> "done", out |-> Returned(TRUE), counter |-> counter]
    ELSE IF rd.kind # "none" \/ status = 0
    THEN [next |-> "sleep", out |-> NoResult, counter |-> counter]
    ELSE IF counter + 1 > CounterLimit
    THEN [next |-> "done", out |-> Returned(FALSE), counter |-> counter + 1]
    ELSE [next |-> "sleep", out |-> NoResult, counter |-> counter + 1]

\* The try block of one turn of wait_for_text's loop after the search.
\* `status` is the flag read after a screen without the text and `rd` the
\* exception of that read (NoFault: none). Every exception is swallowed; a
\* flag that is not 0 counts one more busy turn, and a count over the limit
\* ends the call with False.
WaitForTextBody(search, counter, status, rd) ==
    IF search = "raised"
    THEN [next |-> "sleep", out |-> NoResult, counter |-> counter]
    ELSE IF search = "found"
    THEN [next |-> "done", out |-> Returned(TRUE), counter |-> counter]
    ELSE IF rd.kind # "none" \/ status = 0
    THEN [next |-> "sleep", out |-> NoResult, counter |-> counter]
    ELSE IF counter + 1 > CounterLimit
    THEN [next |-> "done", out |-> Returned(FALSE), counter |-> counter + 1]
    ELSE [next |-> "sleep", out |-> NoResult, counter |-> counter + 1]

----------------------------------------------------------------------------
(* Session Controller: connect, disconnect *)

\* mutant of connect: the flag is set before the host calls
connect_sets_flag_first(t, hc) ==
    IF t.connected THEN [term |-> t, out |-> Returned("None"), host_calls |-> 0]
    ELSE IF hc.kind = "none"
    THEN [term |-> [t EXCEPT !.connected = TRUE], out |-> Returned("None"),
          host_calls |-> IF t.terminal_type \in {"HIS", "NETMANAGE"} THEN 2 ELSE 1]
    ELSE IF hc.kind = "com_error"
    THEN [term |-> [t EXCEPT !.connected = TRUE], host_calls |-> 1,
          out |-> Raised([kind |-> "ConnectionError", error_code |-> 1001,
                          message |-> "Connection failed: ", details |-> NoDetails,
                          text |-> StrOf(hc), cause |-> hc.kind])]
    ELSE [term |-> [t EXCEPT !.connected = TRUE], host_calls |-> 1, out |-> Raised(hc)]

\* mutant of connect: an exception that is not com_error leaves the flag set
connect_sets_flag_on_failure(t, hc) ==
    IF t.connected THEN [term |-> t, out |-> Returned("None"), host_calls |-> 0]
    ELSE IF hc.kind = "none"
    THEN [term |-> [t EXCEPT !.connected = TRUE], out |-> Returned("None"),
          host_calls |-> IF t.terminal_type \in {"HIS", "NETMANAGE"} THEN 2 ELSE 1]
    ELSE IF hc.kind = "com_error"
    THEN [term |-> t, host_calls |-> 1,
          out |-> Raised([kind |-> "ConnectionError", error_code |-> 1001,
                          message |-> "Connection failed: ", details |-> NoDetails,
                          text |-> StrOf(hc), cause |-> hc.kind])]
    ELSE [term |-> [t EXCEPT !.connected = TRUE], host_calls |-> 1, out |-> Raised(hc)]

\* connect(): nothing when connected; otherwise the Connect call of the
\* backend (HIS and NETMANAGE wait for the handshake as well), connected = True;
\* com_error becomes ConnectionError, any other exception passes through.
\* `hc` is the exception of the host calls (NoFault: none).
connect(t, hc) ==
    IF t.connected THEN [term |-> t, out |-> Returned("None"), host_calls |-> 0]
    ELSE IF hc.kind = "none"
    THEN [term |-> [t EXCEPT !.connected = TRUE], out |-> Returned("None"),
          host_calls |-> IF t.terminal_type \in {"HIS", "NETMANAGE"} THEN 2 ELSE 1]
    ELSE IF hc.kind = "com_error"
    THEN [term |-> t, host_calls |-> 1,
          out |-> Raised([kind |-> "ConnectionError", error_code |-> 1001,
                          message |-> "Connection failed: ", details |-> NoDetails,
                          text |-> StrOf(hc), cause |-> hc.kind])]
    ELSE [term |-> t, host_calls |-> 1, out |-> Raised(hc)]

\* mutant of disconnect: the flag is left as it is
disconnect_keeps_flag(t) == t

\* disconnect(): connected = False when it was set; no host call
disconnect(t) == IF t.connected THEN [t EXCEPT !.connected = FALSE] ELSE t

----------------------------------------------------------------------------
(* Session Controller: managed blocks, __enter__ and __exit__ *)

\* __enter__(): connect(), return self. `steps` lists the calls made.
enter(t, hc) ==
    LET r == connect(t, hc)
    IN  [term |-> r.term, steps |-> <<"connect">>, host_calls |-> r.host_calls,
         out |-> IF r.out.kind = "ok" THEN Returned("self") ELSE r.out]

\* mutant of exit: a failure of the release leaves __exit__
exit_raises_release_failure(t, un) ==
    [term |-> disconnect(t), steps |-> <<"disconnect", "CoUninitialize">>,
     releases |-> 1,
     out |-> IF un.kind = "none" THEN Returned("None") ELSE Raised(un)]

\* __exit__(exc_type, exc_val, exc_tb): disconnect(), then CoUninitialize()
\* with every exception of it swallowed; returns None. `un` is the exception
\* of CoUninitialize (NoFault: none), `releases` counts the calls of it.
exit(t, un) ==
    [term |-> disconnect(t), steps |-> <<"disconnect", "CoUninitialize">>,
     releases |-> 1, out |-> Returned("None")]

----------------------------------------------------------------------------
(* Spec: the operations of a constructed controller *)

\* a call of the controller that has started
Started(op, pc) ==
    [op |-> op, pc |-> pc, cmd |-> "", keys |-> "", strip_whitespace |-> FALSE,
     timeout |-> DefaultTimeout, elapsed |-> 0, sent |-> <<>>, polled |-> <<>>,
     reads |-> 0, timed_out |-> FALSE, no_args |-> FALSE, text |-> "",
     text_timeout |-> 0, waited |-> 0, screens |-> <<>>, buffer |-> "",
     read_error |-> NoFault, before |-> NoTerm, host_calls |-> 0,
     host_error |-> NoFault, steps |-> <<>>, body |-> NoFault,
     release_error |-> NoFault, releases |-> 0, flag |-> NoStatus]

\* commands handed to send_command, key strings handed to send_keys
Commands ==
    {"test", "hello{TAB}", "ENTER ", "test<PA1>", "test<PA2>", "test<CLEAR>",
     "test<RESET>"}
KeyStrings == {"x<ENTER>"}

\* contents screen.GetStringEx returns: empty, 24 rows of 80, 32 rows of 80,
\* more than 32 rows
RECURSIVE Repeat(_, _)
Repeat(s, n) ==
    IF n = 0 THEN ""
    ELSE LET half == Repeat(s, n \div 2)
         IN  half \o half \o (IF n % 2 = 1 THEN s ELSE "")
Buffers ==
    {"", "hello world" \o Repeat(" ", 24 * Columns - 11), Repeat("  test  ", 320),
     Repeat("  test  ", 330)}

\* the controllers construction can return for a host collection
Controllers(coll) ==
    LET conn == [i \in 1..Len(coll) |-> TRUE]
        built(a) == Construct(coll, conn, a[2], a[1], NoInitFault)
    IN  {NewTerm(a[1], built(a)) :
            a \in {b \in TerminalTypes \X SessionIds : built(b).kind = "ok"}}

\* the state after a construction that returned
Init ==
    /\ sessions \in HostCollections
    /\ term \in Controllers(sessions)
    /\ xstatus \in StatusValues
    /\ call = Idle
    /\ result = NoResult
    /\ coInits = 1
    /\ coUninits = 0
    /\ blocks = 0
    /\ pieces = <<>>
    /\ command = ""
    /\ formatted = ""
    /\ reformatted = ""
    /\ fpc = "start"

\* the emulator changes the readiness flag
HostSetStatus ==
    /\ call.pc # "done"
    /\ \E v \in StatusValues \ {xstatus} : xstatus' = v
    /\ UNCHANGED <<sessions, term, call, result, coInits, coUninits, blocks, fvars>>

\* is_connected(): session.Connected, which the emulator owns and may change
\* between any two reads, or the exception of the read
ConnectedReads == {Returned(TRUE), Returned(FALSE)}

\* a call that ends in its first step
Finish(c, out) ==
    /\ call' = [c EXCEPT !.pc = "done"]
    /\ result' = out

\* send_keys(keys) up to the first pass of the poller
EnterSendKeys(c, keys) ==
    \E conn \in ConnectedReads \cup {Raised(e) : e \in HostErrors} :
    \E sk \in {NoFault} \cup HostErrors :
        LET conn_out == IF conn.kind = "raised" THEN conn.error ELSE conn
            e == SendKeysEntry(keys, conn_out, sk)
        IN  IF e.next = "poll"
            THEN /\ call' = [c EXCEPT !.pc = "poll", !.keys = keys, !.sent = e.sent]
                 /\ result' = NoResult
            ELSE /\ call' = [c EXCEPT !.pc = "done", !.keys = keys, !.sent = e.sent]
                 /\ result' = e.out

\* terminal.send_keys(keys)
SendKeysCall ==
    /\ call.op = "idle"
    /\ term.exists
    /\ \E keys \in KeyStrings : EnterSendKeys(Started("send_keys", "poll"), keys)
    /\ UNCHANGED <<sessions, xstatus, term, coInits, coUninits, blocks, fvars>>

\* terminal.send_command(command)
SendCommandCall ==
    /\ call.op = "idle"
    /\ term.exists
    /\ \E cmd \in Commands :
          EnterSendKeys([Started("send_command", "poll") EXCEPT !.cmd = cmd],
                        format_command(cmd))
    /\ UNCHANGED <<sessions, xstatus, term, coInits, coUninits, blocks, fvars>>

\* terminal.read_screen() and terminal.read_screen(strip_whitespace)
ReadScreenCall ==
    /\ call.op = "idle"
    /\ term.exists
    /\ \E no_args \in BOOLEAN, given \in BOOLEAN :
          call' = [Started("read_screen", "poll") EXCEPT
                      !.no_args = no_args,
                      !.strip_whitespace = IF no_args THEN DefaultStrip ELSE given]
    /\ result' = NoResult
    /\ UNCHANGED <<sessions, xstatus, term, coInits, coUninits, blocks, fvars>>

\* terminal.wait_for_ready(timeout)
WaitForReadyCall ==
    /\ call.op = "idle"
    /\ term.exists
    /\ \E timeout \in 0..MaxPolls :
          call' = [Started("wait_for_ready", "poll") EXCEPT !.timeout = timeout]
    /\ result' = NoResult
    /\ UNCHANGED <<sessions, xstatus, term, coInits, coUninits, blocks, fvars>>

\* what the call in progress makes of the poller's result
Resume(c, w, gs) ==
    CASE c.op = "send_keys" ->
            [reads |-> 0, out |-> SendKeysResume(c.keys, w)]
      [] c.op = "send_command" ->
            [reads |-> 0,
             out |-> SendCommandResume(c.cmd, c.keys, SendKeysResume(c.keys, w))]
      [] c.op = "read_screen" -> ReadScreenResume(c.strip_whitespace, w, gs)
      [] OTHER -> [reads |-> 0, out |-> w]

\* one pass of the poller inside the call in progress: the time check, the
\* read of the flag, and either the sleep or the rest of the call
Poll ==
    /\ call.pc = "poll"
    /\ \E rd \in {NoFault} \cup HostErrors :
       \E gs \in {ReturnedStr(b) : b \in Buffers} \cup HostErrors :
          LET p == wait_for_ready(call.elapsed, call.timeout, xstatus, rd)
              seen == IF rd.kind = "none" THEN Append(call.polled, xstatus)
                      ELSE call.polled
          IN  IF p.next = "sleep"
              THEN /\ call' = [call EXCEPT !.elapsed = @ + 1, !.polled = seen]
                   /\ result' = NoResult
              ELSE LET r == Resume(call, p.out, gs)
                   IN  /\ call' = [call EXCEPT !.pc = "done", !.polled = seen,
                                               !.reads = r.reads,
                                               !.read_error = rd,
                                               !.buffer = IF r.reads = 1 /\ gs.kind = "ok"
                                                          THEN gs.value ELSE "",
                                               !.timed_out = ~(call.elapsed < call.timeout)]
                       /\ result' = r.out
    /\ UNCHANGED <<sessions, xstatus, term, coInits, coUninits, blocks, fvars>>

\* terminal.connect()
ConnectCall ==
    /\ call.op = "idle"
    /\ term.exists
    /\ \E hc \in {NoFault} \cup HostErrors :
          LET r == connect(term, hc)
          IN  /\ term' = r.term
              /\ Finish([Started("connect", "done") EXCEPT
                             !.before = term, !.host_calls = r.host_calls,
                             !.host_error = IF r.host_calls > 0 THEN hc ELSE NoFault],
                        r.out)
    /\ UNCHANGED <<sessions, xstatus, coInits, coUninits, blocks, fvars>>

\* terminal.disconnect()
DisconnectCall ==
    /\ call.op = "idle"
    /\ term.exists
    /\ term' = disconnect(term)
    /\ Finish([Started("disconnect", "done") EXCEPT !.before = term], Returned("None"))
    /\ UNCHANGED <<sessions, xstatus, coInits, coUninits, blocks, fvars>>

\* terminal.list_available_sessions(): `conn` is the Connected attribute of
\* each session, `fault` the exception of the host reads (NoFault: none)
ListSessionsCall ==
    /\ call.op = "idle"
    /\ term.exists
    /\ \E conn \in [1..Len(sessions) -> BOOLEAN], fault \in {NoFault} \cup HostErrors :
          LET out == list_available_sessions(sessions, conn, fault)
          IN  Finish([Started("list_available_sessions", "done") EXCEPT
                         !.before = term, !.host_error = fault],
                     IF out.kind = "ok" THEN out ELSE Raised(out))
    /\ UNCHANGED <<sessions, xstatus, term, coInits, coUninits, blocks, fvars>>

\* terminal.check_system_status()
CheckStatusCall ==
    /\ call.op = "idle"
    /\ term.exists
    /\ \E fault \in {NoFault} \cup HostErrors :
          LET out == check_system_status(sessions, fault)
          IN  Finish([Started("check_system_status", "done") EXCEPT
                         !.before = term, !.host_error = fault],
                     IF out.kind = "ok" THEN out ELSE Raised(out))
    /\ UNCHANGED <<sessions, xstatus, term, coInits, coUninits, blocks, fvars>>

Next ==
    \/ HostSetStatus
    \/ ListSessionsCall
    \/ CheckStatusCall
    \/ SendKeysCall
    \/ SendCommandCall
    \/ ReadScreenCall
    \/ WaitForReadyCall
    \/ Poll
    \/ ConnectCall
    \/ DisconnectCall
    \/ Return

Spec == Init /\ [][Next]_vars

----------------------------------------------------------------------------
(* Properties of send_keys, send_command and read_screen (Spec) *)

Done(op) == call.op = op /\ call.pc = "done"

\* the poller of the finished call read the flag as busy at every pass and
\* once more when the time was up
BusyThroughout ==
    /\ call.timed_out
    /\ Len(call.polled) = call.timeout + 1
    /\ \A i \in 1..Len(call.polled) : call.polled[i] = Busy

\* commands already in the host's escape syntax that do not end in <ENTER>
EscapeCommands == {"test<PA1>", "test<PA2>", "test<CLEAR>", "test<RESET>"}

\* C4: send_command of a command that holds a host escape token and does not
\* end in <ENTER> hands SendKeys the command as given followed by " <ENTER>".
C4_HostSyntaxUnchanged ==
    (Done("send_command") /\ call.cmd \in EscapeCommands /\ call.sent # <<>>) =>
        call.sent = <<call.cmd \o " <ENTER>">>

\* C5: a send_command that returns has called SendKeys once, with the
\* formatted command, has polled the flag until a read that was not busy
\* (every read before it was busy), and returns the string it injected.
C5_SendCommandSuccess ==
    (Done("send_command") /\ result.kind = "ok") =>
        /\ call.sent = <<format_command(call.cmd)>>
        /\ result.value = call.sent[1]
        /\ Len(call.polled) >= 1
        /\ call.polled[Len(call.polled)] # Busy
        /\ \A i \in 1..(Len(call.polled) - 1) : call.polled[i] = Busy

\* send_command("hello{TAB}") returning over the flag sequence 5, 5, 0
C5_Witness ==
    /\ Done("send_command")
    /\ result.kind = "ok"
    /\ call.cmd = "hello{TAB}"
    /\ call.polled = <<Busy, Busy, 0>>

\* C6: a read_screen whose poller found the flag busy for the whole timeout
\* raises TerminalBusyError (1003) and has not called GetStringEx.
C6_ReadScreenBusy ==
    (Done("read_screen") /\ BusyThroughout) =>
        /\ result.kind = "raised"
        /\ result.error.kind = "TerminalBusyError"
        /\ result.error.error_code = 1003
        /\ call.reads = 0

\* C7 as stated: a send_keys that injected its keys and then found the flag
\* busy for the whole timeout raises CommandError.
C7_NotReadyIsCommandError ==
    (Done("send_keys") /\ call.sent # <<>> /\ BusyThroughout) =>
        (result.kind = "raised" /\ result.error.kind = "CommandError")

\* C7 amended: a send_keys that injected its keys and then found the flag
\* busy for the whole timeout raises the poller's TerminalBusyError, with the
\* timeout and the last status in its detail.
C7_NotReadyIsBusyError ==
    (Done("send_keys") /\ call.sent # <<>> /\ BusyThroughout) =>
        /\ result.kind = "raised"
        /\ result.error.kind = "TerminalBusyError"
        /\ result.error.error_code = 1003
        /\ result.error.details = [timeout |-> call.timeout, last_status |-> Busy]

\* a send_keys that injected its keys and timed out on a busy flag
C7_Witness ==
    /\ Done("send_keys")
    /\ call.sent = <<call.keys>>
    /\ BusyThroughout
    /\ call.elapsed = DefaultTimeout

\* C8: a send_command whose poller found the flag busy (5) for the whole
\* timeout raises TerminalBusyError to its caller.
C8_SendCommandBusy ==
    (Done("send_command") /\ BusyThroughout) =>
        (result.kind = "raised" /\ result.error.kind = "TerminalBusyError")

\* a send_command("test") that timed out on a busy flag
C8_Witness ==
    /\ Done("send_command")
    /\ call.cmd = "test"
    /\ call.sent = <<"test <ENTER>">>
    /\ BusyThroughout
    /\ result.kind = "raised"

\* C12: a read_screen() without arguments that returns gives a sequence of
\* rows, each of at most 80 characters, and not one string.
C12_NoArgumentsGivesRows ==
    (Done("read_screen") /\ call.no_args /\ result.kind = "ok") =>
        /\ result.shape = "list"
        /\ \A i \in 1..Len(result.value) : Len(result.value[i]) <= Columns

\* C13 as stated: a read_screen that returns has worked on exactly 2560
\* characters whatever the host returned: 32 rows with strip_whitespace=True,
\* a string of 2560 characters with strip_whitespace=False.
C13_Exactly2560 ==
    (Done("read_screen") /\ result.kind = "ok") =>
        IF call.strip_whitespace
        THEN result.shape = "list" /\ Len(result.value) = ScreenSize \div Columns
        ELSE result.shape = "str" /\ Len(result.value) = ScreenSize

\* C13 amended: a read_screen that returns has worked on the first n
\* characters of the buffer, n the smaller of the buffer's length and 2560
\* (longer buffers are truncated, shorter ones are not padded): with
\* strip_whitespace=True it returns one row for every started 80 characters
\* of them, each the right-trimmed slice, in top-to-bottom order; with
\* strip_whitespace=False it returns these n characters as one string.
C13_AtMost2560 ==
    (Done("read_screen") /\ result.kind = "ok") =>
        LET n == Min(Len(call.buffer), ScreenSize)
        IN  IF call.strip_whitespace
            THEN /\ result.shape = "list"
                 /\ Len(result.value) = (n + Columns - 1) \div Columns
                 /\ \A i \in 1..Len(result.value) :
                       result.value[i] =
                           RStrip(SubSeq(call.buffer, (i - 1) * Columns + 1,
                                         Min(i * Columns, n)))
            ELSE /\ result.shape = "str"
                 /\ result.value = SubSeq(call.buffer, 1, n)

\* a read_screen(True) of a buffer longer than 2560 characters that returned
\* 32 rows
C13_Witness ==
    /\ Done("read_screen")
    /\ result.kind = "ok"
    /\ call.strip_whitespace
    /\ Len(call.buffer) > ScreenSize
    /\ Len(result.value) = 32

----------------------------------------------------------------------------
(* Properties of wait_for_ready, connect and disconnect (Spec) *)

\* every read of the flag by the finished call went through
ReadsWentThrough == call.read_error = NoFault

\* C14: a finished wait_for_ready(timeout) never returned False. When its
\* reads of the flag went through: it returned True exactly when a read
\* inside the timeout was not busy, at the first such read, having slept once
\* after each busy read before it; otherwise it slept `timeout` times and
\* raised TerminalBusyError with the timeout and the last status read; and
\* with timeout = 0 it raised without any sleep.
C14_WaitForReady ==
    Done("wait_for_ready") =>
        /\ result # Returned(FALSE)
        /\ ReadsWentThrough =>
              LET n == Len(call.polled)
              IN  /\ n >= 1
                  /\ \A i \in 1..(n - 1) : call.polled[i] = Busy
                  /\ IF ~call.timed_out
                     THEN /\ result = Returned(TRUE)
                          /\ call.polled[n] # Busy
                          /\ call.elapsed = n - 1
                          /\ call.elapsed < call.timeout
                     ELSE /\ result = Raised(TerminalBusyError("Terminal busy timeout",
                                           [timeout |-> call.timeout,
                                            last_status |-> call.polled[n]]))
                          /\ call.elapsed = call.timeout
                          /\ n = call.timeout + 1
                  /\ call.timeout = 0 => (result.kind = "raised" /\ call.elapsed = 0)

\* a wait_for_ready(0) that raised at once, and on a flag that is not busy
C14_Witness ==
    /\ Done("wait_for_ready")
    /\ ReadsWentThrough
    /\ call.timeout = 0
    /\ call.elapsed = 0
    /\ call.polled = <<0>>
    /\ result.kind = "raised"

\* C15: a wait_for_ready one of whose reads of the flag raised, inside the
\* timeout or at the last read after it, raises TerminalBusyError.
C15_ReadFailureIsBusyError ==
    (Done("wait_for_ready") /\ ~ReadsWentThrough) =>
        (result.kind = "raised" /\ result.error.kind = "TerminalBusyError")

\* C16: a finished send_keys on a controller whose connected flag is False
\* has raised ConnectionError and has not called SendKeys.
C16_SendKeysNeedsConnectedFlag ==
    (Done("send_keys") /\ ~term.connected) =>
        /\ result.kind = "raised"
        /\ result.error.kind = "ConnectionError"
        /\ call.sent = <<>>

C18_Disconnect ==
    Done("disconnect") =>
        /\ result = Returned("None")
        /\ call.host_calls = 0
        /\ ~term.connected
        /\ term = [call.before EXCEPT !.connected = FALSE]
        /\ ~call.before.connected => term = call.before

\* a disconnect() of a connected controller
C18_Witness ==
    /\ Done("disconnect")
    /\ call.before.connected
    /\ ~term.connected
    /\ result.kind = "ok"

\* the operations the propagation policy is stated for
PolicyOps == {"connect", "send_keys", "send_command", "read_screen", "wait_for_ready"}

\* C21: whatever connect, send_keys, send_command, read_screen or
\* wait_for_ready raises is one of the four taxonomy kinds.
C21_OnlyTaxonomyErrors ==
    (call.op \in PolicyOps /\ call.pc = "done" /\ result.kind = "raised") =>
        result.error.kind \in TaxonomyKinds

\* C24: a finished list_available_sessions has returned and not raised: one
\* record of index, name and connected for each host session, with the
\* indices 1..Count in order, when the enumeration went through, and a
\* description string when a host read raised.
C24_ListSessions ==
    Done("list_available_sessions") =>
        /\ result.kind = "ok"
        /\ IF call.host_error = NoFault
           THEN /\ result.shape = "list"
                /\ Len(result.value) = Len(sessions)
                /\ \A i \in 1..Len(sessions) :
                      /\ result.value[i].index = i
                      /\ result.value[i].name = sessions[i]
                      /\ result.value[i].connected \in BOOLEAN
           ELSE result.shape = "str"

SendOps == {"send_keys", "send_command"}

\* C25 as stated: in read_screen, send_keys and send_command the host is
\* touched (GetStringEx, SendKeys) only after the poller has read the flag.
C25_PollBeforeHost ==
    (call.op \in SendOps \cup {"read_screen"} /\ (call.sent # <<>> \/ call.reads > 0)) =>
        /\ call.polled # <<>>
        /\ call.polled[Len(call.polled)] # Busy

\* C25 amended: read_screen calls GetStringEx only after a pass of the
\* poller that read a flag that is not busy. send_keys and send_command
\* call SendKeys first, whatever the flag is, and poll afterwards: the poller
\* runs only once the keys are injected, and a send that returns has polled
\* a flag that is not busy after its injection.
C25_PollOrder ==
    /\ (call.op = "read_screen" /\ call.reads > 0) =>
          /\ call.polled # <<>>
          /\ call.polled[Len(call.polled)] # Busy
          /\ ~call.timed_out
    /\ (call.op \in SendOps /\ call.pc = "poll") => call.sent = <<call.keys>>
    /\ (call.op \in SendOps /\ call.polled # <<>>) => call.sent = <<call.keys>>
    /\ (call.op \in SendOps /\ call.pc = "done" /\ result.kind = "ok") =>
          /\ call.sent = <<call.keys>>
          /\ call.polled # <<>>
          /\ call.polled[Len(call.polled)] # Busy

\* keys injected by send_keys before any pass of the poller, on a busy flag
C25_Witness ==
    /\ call.op = "send_keys"
    /\ call.pc = "poll"
    /\ call.sent = <<call.keys>>
    /\ call.polled = <<>>
    /\ xstatus = Busy

----------------------------------------------------------------------------
(* SpecWait: wait_for_text on a constructed controller *)

MaxWait == 2
MaxCounter == 2

\* texts looked for: one character, several characters, a text on no screen
Texts == {"w", "hello", "q"}

\* screens the host shows while a text is looked for: the empty one and the
\* 24 rows of 80 that start with "hello world"
TextBuffers == {b \in Buffers : Len(b) < ScreenSize}

\* values of the busy counter a call starts from: a new controller, and a
\* controller whose counter has reached the limit
StartCounters == {0, CounterLimit}
CounterInRange(n) == \E s \in StartCounters : n >= s /\ n <= s + MaxCounter

\* a controller of the default backend on a host with one session
InitWait ==
    /\ sessions = <<"A">>
    /\ \E t \in {c \in Controllers(sessions) : c.terminal_type = "EXTRA"},
          n \in StartCounters :
          term = [t EXCEPT !.counter = n]
    /\ xstatus \in StatusValues
    /\ call = Idle
    /\ result = NoResult
    /\ coInits = 1
    /\ coUninits = 0
    /\ blocks = 0
    /\ pieces = <<>>
    /\ command = ""
    /\ formatted = ""
    /\ reformatted = ""
    /\ fpc = "start"

\* terminal.wait_for_text(text, timeout): start_time, the first time check
WaitForTextCall ==
    /\ call.op = "idle"
    /\ term.exists
    /\ \E text \in Texts, timeout \in 0..MaxWait :
          LET c == [Started("wait_for_text", "read") EXCEPT
                        !.text = text, !.text_timeout = timeout]
          IN  IF 0 < timeout
              THEN call' = c /\ result' = NoResult
              ELSE Finish(c, Returned(FALSE))
    /\ UNCHANGED <<sessions, xstatus, term, coInits, coUninits, blocks, fvars>>

\* the end of one turn of wait_for_text: `r` is what read_screen() returned
\* or raised, `b` what the try block made of it, `flag` the flag the turn
\* read after its search (NoStatus: not read); then time.sleep(interval)
\* and the time check of the next turn. Every sleep is one tick of `waited`.
EndTurn(r, b, flag) ==
    LET seen == IF r.kind = "ok" THEN Append(call.screens, r) ELSE call.screens
    IN  /\ CounterInRange(b.counter)
        /\ term' = [term EXCEPT !.counter = b.counter]
        /\ IF b.next = "done"
           THEN /\ call' = [call EXCEPT !.pc = "done", !.screens = seen,
                                       !.flag = flag]
                /\ result' = b.out
           ELSE IF call.waited + 1 < call.text_timeout
           THEN /\ call' = [call EXCEPT !.elapsed = 0, !.waited = @ + 1,
                                       !.screens = seen, !.flag = flag]
                /\ result' = NoResult
           ELSE /\ call' = [call EXCEPT !.pc = "done", !.waited = @ + 1,
                                       !.screens = seen, !.flag = flag]
                /\ result' = Returned(FALSE)

\* One pass of the poller inside the read_screen() of wait_for_text, and
\* when the poller ends the rest of the turn: the rest of read_screen(), the
\* search, and after a screen without the text the second read of the flag
\* (`status`, which the emulator may have changed since the poller's read).
PollText ==
    /\ call.pc = "read"
    /\ \E rd \in {NoFault} \cup HostErrors :
       \E p \in {wait_for_ready(call.elapsed, call.timeout, xstatus, rd)} :
          IF p.next = "sleep"
          THEN /\ call' = [call EXCEPT !.elapsed = @ + 1, !.waited = @ + 1]
               /\ result' = NoResult
               /\ UNCHANGED <<term, xstatus>>
          ELSE \E gs \in IF p.out.kind = "ok"
                         THEN {ReturnedStr(b) : b \in TextBuffers} \cup HostErrors
                         ELSE {NoFault} :
               \E r \in {ReadScreenResume(DefaultStrip, p.out, gs).out} :
               \E search \in {Search(call.text, r)} :
               \E status \in IF search = "absent" THEN StatusValues ELSE {xstatus} :
               \E rd2 \in IF search = "absent" THEN {NoFault} \cup HostErrors
                          ELSE {NoFault} :
                  /\ EndTurn(r, WaitForTextBody(search, term.counter, status, rd2),
                             IF search = "absent" /\ rd2.kind = "none" THEN status
                             ELSE NoStatus)
                  /\ xstatus' = IF rd2.kind = "none" THEN status ELSE xstatus
    /\ UNCHANGED <<sessions, coInits, coUninits, blocks, fvars>>

NextWait == HostSetStatus \/ WaitForTextCall \/ PollText \/ Return

SpecWait == InitWait /\ [][NextWait]_vars

----------------------------------------------------------------------------
(* Properties of wait_for_text (SpecWait) *)

\* the text is a substring of some row of the screen read_screen worked on
InSomeRow(text, r) ==
    LET response == IF r.shape = "str" THEN r.value ELSE ""
    IN  IF r.shape = "str"
        THEN \E k \in 0..((Len(response) - 1) \div Columns) :
                Contains(Slice(response, k * Columns, (k + 1) * Columns), text)
        ELSE \E i \in 1..Len(r.value) : Contains(r.value[i], text)

\* C11: while wait_for_text runs, no screen it has read held the text in one
\* of its rows, and once a screen it read holds the text the call has ended
\* on that read and returns True.
C11_ReturnsTrueOnFirstMatch ==
    (call.op = "wait_for_text" /\
     \E i \in 1..Len(call.screens) : InSomeRow(call.text, call.screens[i])) =>
        /\ call.pc = "done"
        /\ result = Returned(TRUE)
        /\ \A i \in 1..(Len(call.screens) - 1) : ~InSomeRow(call.text, call.screens[i])

\* SpecWait with a caller that keeps running: the loop of a wait_for_text
\* in progress takes its next pass
SpecWaitFair == SpecWait /\ WF_vars(PollText)

\* C22: a finished wait_for_text has returned True or False and never
\* raised; a False that is not the busy counter's comes when the timeout has
\* elapsed; and every wait_for_text that has started finishes.
C22_WaitForTextTerminates ==
    /\ [](Done("wait_for_text") =>
            /\ result \in {Returned(TRUE), Returned(FALSE)}
            /\ (result = Returned(FALSE) /\ term.counter <= CounterLimit) =>
                  call.waited >= call.text_timeout)
    /\ (call.op = "wait_for_text") ~> Done("wait_for_text")

\* a wait_for_text every screen read of which raised, returning False at the
\* timeout
C22_Witness ==
    /\ Done("wait_for_text")
    /\ call.text_timeout = MaxWait
    /\ call.screens = <<>>
    /\ call.waited >= call.text_timeout
    /\ result = Returned(FALSE)

\* C27: the busy counter never decreases. A step raises it, by one, exactly
\* when it ends a turn of wait_for_text that read a screen, did not return
\* True and then read a flag that is not 0; such a step that takes the
\* counter over the limit 10000 ends the call with False. A wait_for_text
\* that returned False before its timeout has a counter over the limit.
C27_BusyCounter ==
    /\ [](Done("wait_for_text") /\ result = Returned(FALSE)
             /\ call.waited < call.text_timeout => term.counter > CounterLimit)
    /\ [][LET counted == /\ call.op = "wait_for_text"
                         /\ call'.op = "wait_for_text"
                         /\ Len(call'.screens) = Len(call.screens) + 1
                         /\ result' # Returned(TRUE)
                         /\ call'.flag \notin {0, NoStatus}
          IN  /\ term'.counter = IF counted THEN term.counter + 1 ELSE term.counter
              /\ (counted /\ term'.counter > CounterLimit) =>
                    (call'.pc = "done" /\ result' = Returned(FALSE))]_vars

\* a second wait_for_text on a controller whose counter is over the limit,
\* returning False on its first turn
C27_Witness ==
    /\ Done("wait_for_text")
    /\ term.counter = CounterLimit + 2
    /\ call.waited = 0
    /\ call.text_timeout = MaxWait
    /\ Len(call.screens) = 1
    /\ result = Returned(FALSE)

----------------------------------------------------------------------------
(* SpecLife: construction, managed blocks and release of controllers *)

\* CoUninitialize calls the model follows
MaxReleases == MaxInits + 1

\* what the body of a managed block ends with: its end, or an exception
BodyEnds == {NoFault} \cup OtherErrors

\* with terminal: the __enter__ of the with statement; the block is entered
\* when __enter__ returns
EnterCall ==
    /\ call.op = "idle"
    /\ term.exists
    /\ coUninits + blocks < MaxReleases
    /\ \E hc \in {NoFault} \cup HostErrors :
          LET e == enter(term, hc)
          IN  /\ term' = e.term
              /\ blocks' = IF e.out.kind = "ok" THEN blocks + 1 ELSE blocks
              /\ Finish([Started("__enter__", "done") EXCEPT
                             !.before = term, !.steps = e.steps,
                             !.host_calls = e.host_calls,
                             !.host_error = IF e.host_calls > 0 THEN hc ELSE NoFault],
                        e.out)
    /\ UNCHANGED <<sessions, xstatus, coInits, coUninits, fvars>>

\* the end of a managed block: the with statement calls __exit__ and, as
\* __exit__ returns None, lets the exception of the body go on
ExitCall ==
    /\ call.op = "idle"
    /\ term.exists
    /\ blocks > 0
    /\ \E body \in BodyEnds, un \in {NoFault} \cup HostErrors :
          LET x == exit(term, un)
          IN  /\ term' = x.term
              /\ coUninits' = coUninits + x.releases
              /\ Finish([Started("__exit__", "done") EXCEPT
                             !.before = term, !.steps = x.steps, !.body = body,
                             !.release_error = un, !.releases = x.releases],
                        IF x.out.kind = "ok" /\ body.kind # "none"
                        THEN Raised(body) ELSE x.out)
    /\ blocks' = blocks - 1
    /\ UNCHANGED <<sessions, xstatus, coInits, fvars>>

NextLife ==
    \/ ConstructCall
    \/ EnterCall
    \/ ExitCall
    \/ ConnectCall
    \/ DisconnectCall
    \/ Return
    \/ Release

SpecLife == InitInit /\ [][NextLife]_vars

----------------------------------------------------------------------------
(* Properties of managed blocks and of the automation runtime (SpecLife) *)

\* C19: an __enter__ that returned has called connect() and leaves the
\* controller connected with the block open. An __exit__, at the end of the
\* body or on an exception of it, has called disconnect() and then
\* CoUninitialize once, leaves connected = False, and ends with the body's
\* exception or with None, never with a failure of the release.
C19_ManagedBlock ==
    /\ (Done("__enter__") /\ result.kind = "ok") =>
          /\ call.steps = <<"connect">>
          /\ term.connected
          /\ blocks >= 1
    /\ Done("__exit__") =>
          /\ call.steps = <<"disconnect", "CoUninitialize">>
          /\ call.releases = 1
          /\ ~term.connected
          /\ term = [call.before EXCEPT !.connected = FALSE]
          /\ result = IF call.body.kind = "none" THEN Returned("None")
                      ELSE Raised(call.body)

\* an __exit__ of a connected controller on an exception of the body, with
\* CoUninitialize raising
C19_Witness ==
    /\ Done("__exit__")
    /\ call.before.connected
    /\ call.body.kind # "none"
    /\ call.release_error \in ComErrors
    /\ ~term.connected

\* no controller, no call and no managed block is left
UseEnded == ~term.exists /\ call = Idle /\ blocks = 0

\* C20: CoUninitialize has never been called more often than CoInitialize,
\* and once the use of every controller has ended both have been called
\* equally often.
C20_RuntimePaired ==
    /\ coUninits <= coInits
    /\ UseEnded => coUninits = coInits

----------------------------------------------------------------------------
(* SpecAll: one controller from its construction through every operation *)

\* a host with one session and no controller yet
InitAll == InitInit /\ sessions = <<"A">>

NextAll == ConstructCall \/ Next \/ WaitForTextCall \/ PollText

SpecAll == InitAll /\ [][NextAll]_vars

\* the calls that may change the connected flag
FlagOps == {"__init__", "connect", "disconnect"}

\* C26: a step changes the connected flag only when it is a construction, a
\* connect() or a disconnect(); a connect() that raises leaves the flag as
\* it was.
C26_ConnectedFrame ==
    [][/\ term'.connected # term.connected =>
             (call.op = "idle" /\ call'.op \in FlagOps)
       /\ (call.op = "idle" /\ call'.op = "connect" /\ result'.kind = "raised") =>
             term'.connected = term.connected]_vars

\* a wait_for_text that ended on a controller disconnected before it
C26_Witness ==
    /\ Done("wait_for_text")
    /\ term.exists
    /\ ~term.connected
    /\ call.screens # <<>>
    /\ result = Returned(FALSE)

----------------------------------------------------------------------------
(* SpecFormat: format_command over assembled command strings *)

PlainPieces == {"t", " "}
BracketPieces == {Bracket(Keys[i]) : i \in 1..Len(Keys)}
BarePieces == {Keys[i] : i \in 1..Len(Keys)}
EscapePieces == {Escape(Keys[i]) : i \in 1..Len(Keys)}
Pieces == PlainPieces \cup BracketPieces \cup BarePieces \cup EscapePieces

PieceSeqs == UNION {[1..n -> Pieces] : n \in 0..MaxPieces}

RECURSIVE Concat(_)
Concat(ps) == IF ps = <<>> THEN "" ELSE Head(ps) \o Concat(Tail(ps))

InitFormat ==
    /\ pieces \in PieceSeqs
    /\ command = Concat(pieces)
    /\ formatted = ""
    /\ reformatted = ""
    /\ fpc = "start"
    /\ sessions = <<>>
    /\ xstatus = 0
    /\ term = NoTerm
    /\ call = Idle
    /\ result = NoResult
    /\ coInits = 0
    /\ coUninits = 0
    /\ blocks = 0

\* result = terminal.format_command(command)
FormatCommand ==
    /\ fpc = "start"
    /\ formatted' = format_command(command)
    /\ fpc' = "formatted"
    /\ UNCHANGED <<pieces, command, reformatted, cvars>>

\* terminal.format_command(result): the formatter applied to its own output
FormatAgain ==
    /\ fpc = "formatted"
    /\ reformatted' = format_command(formatted)
    /\ fpc' = "again"
    /\ UNCHANGED <<pieces, command, formatted, cvars>>

NextFormat == FormatCommand \/ FormatAgain

SpecFormat == InitFormat /\ [][NextFormat]_vars

----------------------------------------------------------------------------
(* Properties of the Command Formatter (SpecFormat) *)

\* the escape token a piece stands for: {KEY} and KEY give <KEY>, other text
\* stays as it is
EscapeOfPiece(p) ==
    IF \E i \in 1..Len(Keys) : p \in {Bracket(Keys[i]), Keys[i]}
    THEN Escape(CHOOSE k \in BarePieces : p \in {Bracket(k), k})
    ELSE p

\* the pieces translated one by one, in order
Translated(ps) == Concat([i \in 1..Len(ps) |-> EscapeOfPiece(ps[i])])

TokenCommand == \A i \in 1..Len(pieces) : pieces[i] \notin EscapePieces

\* C1: a command assembled from plain text, bracket tokens and bare tokens is
\* formatted to the same pieces with every token replaced by its escape token
\* exactly once, in order, either as it stands or trimmed with " <ENTER>"
\* appended.
C1_TokensEscapedOnce ==
    (fpc # "start" /\ TokenCommand) =>
        formatted \in {Translated(pieces), Strip(Translated(pieces)) \o " <ENTER>"}

\* C2: the string format_command returns ends with the submit token <ENTER>.
C2_EndsWithSubmit == fpc # "start" => EndsWith(formatted, "<ENTER>")

\* C3: a command without tokens that does not end in <ENTER> gets exactly
\* " <ENTER>" appended to its trimmed text, a command that already ends in
\* <ENTER> is returned unchanged, and formatting the output again changes
\* nothing.
C3_AppendOnceIdempotent ==
    /\ (fpc # "start" /\ \A i \in 1..Len(pieces) : pieces[i] \in PlainPieces)
           => formatted = Strip(command) \o " <ENTER>"
    /\ (fpc # "start" /\ EndsWith(command, "<ENTER>")) => formatted = command
    /\ fpc = "again" => reformatted = formatted

====
